---- MODULE Spec2Model ----
(***************************************************************************)
(* A model of raqote's stroker, src/src/stroke.rs: stroke_to_path walks    *)
(* the operations of a flattened path and appends closed contours (one     *)
(* quad per segment, joins between segments, caps at open ends) to a       *)
(* PathBuilder.                                                            *)
(*                                                                         *)
(* Numbers.  The code computes in f32.  The model computes in exact        *)
(* rational arithmetic: a number is a pair <<n, d>> in lowest terms with   *)
(* d > 0.  The only irrational operations of the code are sqrt and hypot;  *)
(* they are exact where the root is rational and are otherwise rounded     *)
(* down to a multiple of 1/SqrtRes (f32 rounds them too, at 24 bits).  The *)
(* input points are chosen so that every segment length is an integer, so  *)
(* rounding only ever touches the control points of round caps and joins.  *)
(*                                                                         *)
(* Input.  `ops` is the prefix of path.ops that the `for` loop has been    *)
(* handed so far; each step draws the next operation from a small set, and *)
(* Finish is the loop running out of operations.                           *)
(***************************************************************************)
EXTENDS Integers, Sequences, FiniteSets, TLC

\* ------------------------------------------------------------------ bounds

\* The longest input path explored by Spec.
MaxOps == 3

\* Resolution to which an irrational square root is rounded.
SqrtRes == 8

\* ------------------------------------------------------- rational numbers

Abs(n) == IF n < 0 THEN -n ELSE n

RECURSIVE GCD(_, _)
GCD(a, b) == IF b = 0 THEN a ELSE GCD(b, a % b)

\* n/d in lowest terms, d > 0
Norm(n, d) ==
    LET s == IF d < 0 THEN -1 ELSE 1
        g == GCD(Abs(n), Abs(d))
    IN  <<(s * n) \div g, (s * d) \div g>>

R(n) == <<n, 1>>
Frac(n, d) == Norm(n, d)

RAdd(a, b) ==
    LET g == GCD(a[2], b[2])
    IN  Norm(a[1] * (b[2] \div g) + b[1] * (a[2] \div g), (a[2] \div g) * b[2])
RNeg(a) == <<-a[1], a[2]>>
RSub(a, b) == RAdd(a, RNeg(b))
RMul(a, b) ==
    LET g1 == GCD(Abs(a[1]), b[2])
        g2 == GCD(Abs(b[1]), a[2])
    IN  Norm((a[1] \div g1) * (b[1] \div g2), (a[2] \div g2) * (b[2] \div g1))
\* only ever used with b # 0 (the code's divisors are lengths of non-zero
\* vectors, or are tested against zero first)
RDiv(a, b) == RMul(a, Norm(b[2], b[1]))
RLe(a, b) == a[1] * b[2] <= b[1] * a[2]
RLt(a, b) == a[1] * b[2] < b[1] * a[2]
RIsZero(a) == a[1] = 0

RECURSIVE ISqrtIn(_, _, _)
ISqrtIn(n, lo, hi) ==
    IF lo >= hi THEN lo
    ELSE LET mid == (lo + hi + 1) \div 2
         IN  IF mid * mid <= n THEN ISqrtIn(n, mid, hi) ELSE ISqrtIn(n, lo, mid - 1)

\* floor of the square root of a natural number
ISqrt(n) == ISqrtIn(n, 0, IF n < 46340 THEN n ELSE 46340)

\* f32::sqrt: exact where the root is rational, else rounded down to 1/SqrtRes
RSqrt(a) ==
    LET p == ISqrt(a[1])
        q == ISqrt(a[2])
    IN  IF p * p = a[1] /\ q * q = a[2]
        THEN <<p, q>>
        ELSE Norm(ISqrt((a[1] * SqrtRes * SqrtRes) \div a[2]), SqrtRes)

\* f32::hypot
Hypot(x, y) == RSqrt(RAdd(RMul(x, x), RMul(y, y)))

\* ------------------------------------------------------ points and vectors

Vec(x, y) == [x |-> x, y |-> y]
Pt(x, y) == [x |-> R(x), y |-> R(y)]
VZero == Vec(R(0), R(0))

VAdd(a, b) == Vec(RAdd(a.x, b.x), RAdd(a.y, b.y))
VSub(a, b) == Vec(RSub(a.x, b.x), RSub(a.y, b.y))
VScale(a, k) == Vec(RMul(a.x, k), RMul(a.y, k))
VDivS(a, k) == Vec(RDiv(a.x, k), RDiv(a.y, k))
VLength(a) == RSqrt(RAdd(RMul(a.x, a.x), RMul(a.y, a.y)))

\* mutant: the assert on ulen is missing, the division by zero goes through
NormalOfUnchecked(ux, uy, ulen) ==
    IF RIsZero(ulen)
    THEN [ok |-> TRUE, v |-> VZero]
    ELSE [ok |-> TRUE, v |-> Vec(RDiv(RNeg(uy), ulen), RDiv(ux, ulen))]

\* compute_normal: the left unit normal of p0 -> p1; fails on a zero length
NormalOf(ux, uy, ulen) ==
    IF RIsZero(ulen)
    THEN [ok |-> FALSE, v |-> VZero]
    ELSE [ok |-> TRUE, v |-> Vec(RDiv(RNeg(uy), ulen), RDiv(ux, ulen))]

compute_normal(p0, p1) ==
    NormalOf(RSub(p1.x, p0.x), RSub(p1.y, p0.y),
             Hypot(RSub(p1.x, p0.x), RSub(p1.y, p0.y)))

flip(v) == Vec(RNeg(v.x), RNeg(v.y))

swap(a) == Vec(a.y, RNeg(a.x))

unperp(a) == swap(a)

perp(v) == Vec(RNeg(v.y), v.x)

dot(a, b) == RAdd(RMul(a.x, b.x), RMul(a.y, b.y))

\* -------------------------------------------------------- the path builder

MoveTo(p) == [op |-> "MoveTo", pts |-> <<p>>]
LineTo(p) == [op |-> "LineTo", pts |-> <<p>>]
QuadTo(c, p) == [op |-> "QuadTo", pts |-> <<c, p>>]
CubicTo(c1, c2, p) == [op |-> "CubicTo", pts |-> <<c1, c2, p>>]
Close == [op |-> "Close", pts |-> <<>>]

\* PathBuilder's primitives append one operation each
move_to(path, x, y) == Append(path, MoveTo(Vec(x, y)))
line_to(path, x, y) == Append(path, LineTo(Vec(x, y)))
cubic_to(path, x1, y1, x2, y2, x, y) ==
    Append(path, CubicTo(Vec(x1, y1), Vec(x2, y2), Vec(x, y)))
close(path) == Append(path, Close)
finish(path) == path

\* ------------------------------------------------------------------- arcs

\* v / v.length()
Normalized(v) == VDivS(v, VLength(v))

\* mutant: perp(a) is dropped from the numerator of h
ArcHNoPerp(a, mid2) == RDiv(RMul(Frac(4, 3), dot(a, mid2)), dot(a, mid2))

\* h of arc_segment: (4/3) tan(angle/4), from mid2 = a + normalized(a + b)
ArcH(a, mid2) == RDiv(RMul(Frac(4, 3), dot(perp(a), mid2)), dot(a, mid2))

\* the cubic_to call of arc_segment
ArcCubic(path, xc, yc, radius, a, b, h) ==
    LET r_sin_A == RMul(radius, a.y)
        r_cos_A == RMul(radius, a.x)
        r_sin_B == RMul(radius, b.y)
        r_cos_B == RMul(radius, b.x)
    IN  cubic_to(path,
                 RSub(RAdd(xc, r_cos_A), RMul(h, r_sin_A)),
                 RAdd(RAdd(yc, r_sin_A), RMul(h, r_cos_A)),
                 RAdd(RAdd(xc, r_cos_B), RMul(h, r_sin_B)),
                 RSub(RAdd(yc, r_sin_B), RMul(h, r_cos_B)),
                 RAdd(xc, r_cos_B),
                 RAdd(yc, r_sin_B))

\* (here and below, a value bound through a singleton set is computed once,
\* before the expression that uses it: a `let` of the code)
arc_segment(path, xc, yc, radius, a, b) ==
    CHOOSE r \in {ArcCubic(path, xc, yc, radius, a, b, h) :
                    h \in {ArcH(a, VAdd(a, Normalized(VAdd(a, b))))}} : TRUE

\* mid / sqrt(mid.x * mid.x + mid.y * mid.y)
NormalizedSqrt(mid) == VDivS(mid, RSqrt(RAdd(RMul(mid.x, mid.x), RMul(mid.y, mid.y))))

\* mutant: the obtuse branch forgets to take the perpendicular
BisectWithoutPerp(a, b) ==
    NormalizedSqrt(IF RLe(R(0), dot(a, b))
                   THEN VAdd(a, b)
                   ELSE VAdd(flip(a), b))

bisect(a, b) ==
    NormalizedSqrt(IF RLe(R(0), dot(a, b))
                   THEN VAdd(a, b)
                   ELSE perp(VAdd(flip(a), b)))

\* the two arc_segment calls of arc
ArcHalves(path, xc, yc, radius, a, mid_v, b) ==
    arc_segment(arc_segment(path, xc, yc, radius, a, mid_v),
                xc, yc, radius, mid_v, b)

arc(path, xc, yc, radius, a, b) ==
    CHOOSE r \in {ArcHalves(path, xc, yc, radius, a, mid_v, b) :
                    mid_v \in {bisect(a, b)}} : TRUE

join_round(path, center, a, b, radius) == arc(path, center.x, center.y, radius, a, b)

\* ------------------------------------------------------------------- caps

\* mutant: a Butt cap pushes a (degenerate) contour instead of nothing
CapLineButtDrawn(dest, style, pt, normal) ==
    LET offset == RDiv(style.width, R(2))
    IN  close(line_to(move_to(dest, RAdd(pt.x, RMul(normal.x, offset)),
                                    RAdd(pt.y, RMul(normal.y, offset))),
                      RSub(pt.x, RMul(normal.x, offset)),
                      RSub(pt.y, RMul(normal.y, offset))))

\* mutant: the square cap extends backwards, over the segment
CapLineSquareBackward(dest, style, pt, normal) ==
    LET offset == RDiv(style.width, R(2))
    IN  CASE style.cap = "Butt" -> dest
          [] style.cap = "Round" ->
                close(arc(move_to(dest, RAdd(pt.x, RMul(normal.x, offset)),
                                        RAdd(pt.y, RMul(normal.y, offset))),
                          pt.x, pt.y, offset, normal, flip(normal)))
          [] style.cap = "Square" ->
                LET v == Vec(RNeg(normal.y), normal.x)
                    end == VAdd(pt, VScale(v, offset))
                    d1 == move_to(dest, RAdd(pt.x, RMul(normal.x, offset)),
                                        RAdd(pt.y, RMul(normal.y, offset)))
                    d2 == line_to(d1, RAdd(end.x, RMul(normal.x, offset)),
                                      RAdd(end.y, RMul(normal.y, offset)))
                    d3 == line_to(d2, RAdd(end.x, RMul(RNeg(normal.x), offset)),
                                      RAdd(end.y, RMul(RNeg(normal.y), offset)))
                    d4 == line_to(d3, RSub(pt.x, RMul(normal.x, offset)),
                                      RSub(pt.y, RMul(normal.y, offset)))
                IN  close(d4)

cap_line(dest, style, pt, normal) ==
    LET offset == RDiv(style.width, R(2))
    IN  CASE style.cap = "Butt" -> dest
          [] style.cap = "Round" ->
                close(arc(move_to(dest, RAdd(pt.x, RMul(normal.x, offset)),
                                        RAdd(pt.y, RMul(normal.y, offset))),
                          pt.x, pt.y, offset, normal, flip(normal)))
          [] style.cap = "Square" ->
                LET v == Vec(normal.y, RNeg(normal.x))
                    end == VAdd(pt, VScale(v, offset))
                    d1 == move_to(dest, RAdd(pt.x, RMul(normal.x, offset)),
                                        RAdd(pt.y, RMul(normal.y, offset)))
                    d2 == line_to(d1, RAdd(end.x, RMul(normal.x, offset)),
                                      RAdd(end.y, RMul(normal.y, offset)))
                    d3 == line_to(d2, RAdd(end.x, RMul(RNeg(normal.x), offset)),
                                      RAdd(end.y, RMul(RNeg(normal.y), offset)))
                    d4 == line_to(d3, RSub(pt.x, RMul(normal.x, offset)),
                                      RSub(pt.y, RMul(normal.y, offset)))
                IN  close(d4)

\* ------------------------------------------------------------------ joins

bevel(dest, style, pt, s1_normal, s2_normal) ==
    LET offset == RDiv(style.width, R(2))
        d1 == move_to(dest, RAdd(pt.x, RMul(s1_normal.x, offset)),
                            RAdd(pt.y, RMul(s1_normal.y, offset)))
        d2 == line_to(d1, RAdd(pt.x, RMul(s2_normal.x, offset)),
                          RAdd(pt.y, RMul(s2_normal.y, offset)))
        d3 == line_to(d2, pt.x, pt.y)
    IN  close(d3)

\* the intersection of the lines through A and B with normals a_perp and
\* b_perp; fails ("trouble") when they are parallel
\* the point A + t * a of line_intersection
IntersectionAt(A, a, t) == Vec(RAdd(A.x, RMul(t, a.x)), RAdd(A.y, RMul(t, a.y)))

line_intersection(A, a_perp, B, b_perp) ==
    IF RIsZero(dot(b_perp, unperp(a_perp)))
    THEN [ok |-> FALSE, v |-> VZero]
    ELSE [ok |-> TRUE,
          v |-> IntersectionAt(A, unperp(a_perp),
                               RDiv(dot(b_perp, VSub(B, A)), dot(b_perp, unperp(a_perp))))]

is_interior_angle(a, b) == RLt(R(0), dot(perp(a), b)) \/ a = b

\* mutant: an interior pair is flipped but not swapped
JoinNormalsNoSwap(s1_normal, s2_normal) ==
    IF is_interior_angle(s1_normal, s2_normal)
    THEN <<flip(s1_normal), flip(s2_normal)>>
    ELSE <<s1_normal, s2_normal>>

\* the pair of normals join_line builds with, after the flip and swap
JoinNormals(s1_normal, s2_normal) ==
    IF is_interior_angle(s1_normal, s2_normal)
    THEN <<flip(s2_normal), flip(s1_normal)>>
    ELSE <<s1_normal, s2_normal>>

\* mutant: the mitre-limit test is strict, so equality falls back to the bevel
MitreTestStrict(style, s1_normal, s2_normal) ==
    LET in_dot_out == RAdd(RMul(RNeg(s1_normal.x), s2_normal.x),
                           RMul(RNeg(s1_normal.y), s2_normal.y))
    IN  RLt(R(2), RMul(RMul(style.mitre_limit, style.mitre_limit),
                       RSub(R(1), in_dot_out)))

\* the mitre-limit test of join_line
MitreTest(style, s1_normal, s2_normal) ==
    LET in_dot_out == RAdd(RMul(RNeg(s1_normal.x), s2_normal.x),
                           RMul(RNeg(s1_normal.y), s2_normal.y))
    IN  RLe(R(2), RMul(RMul(style.mitre_limit, style.mitre_limit),
                       RSub(R(1), in_dot_out)))

\* mutant: parallel offset lines fall back to the bevel instead of failing
MitreContourOrBevel(dest, style, pt, s1_normal, s2_normal, intersection) ==
    LET offset == RDiv(style.width, R(2))
    IN  IF ~intersection.ok
        THEN [ok |-> TRUE, v |-> bevel(dest, style, pt, s1_normal, s2_normal)]
        ELSE [ok |-> TRUE,
              v |-> close(line_to(line_to(line_to(
                        move_to(dest, RAdd(pt.x, RMul(s1_normal.x, offset)),
                                      RAdd(pt.y, RMul(s1_normal.y, offset))),
                        intersection.v.x, intersection.v.y),
                        RAdd(pt.x, RMul(s2_normal.x, offset)),
                        RAdd(pt.y, RMul(s2_normal.y, offset))),
                        pt.x, pt.y))]

\* the Mitre arm of join_line once the mitre-limit test has passed
MitreContour(dest, style, pt, s1_normal, s2_normal, intersection) ==
    LET offset == RDiv(style.width, R(2))
    IN  IF ~intersection.ok
        THEN [ok |-> FALSE, v |-> dest]
        ELSE [ok |-> TRUE,
              v |-> close(line_to(line_to(line_to(
                        move_to(dest, RAdd(pt.x, RMul(s1_normal.x, offset)),
                                      RAdd(pt.y, RMul(s1_normal.y, offset))),
                        intersection.v.x, intersection.v.y),
                        RAdd(pt.x, RMul(s2_normal.x, offset)),
                        RAdd(pt.y, RMul(s2_normal.y, offset))),
                        pt.x, pt.y))]

\* the match on style.join of join_line, on the normals after the flip and swap
JoinContour(dest, style, pt, s1_normal, s2_normal) ==
    LET offset == RDiv(style.width, R(2))
    IN  CASE style.join = "Round" ->
               [ok |-> TRUE,
                v |-> close(line_to(arc(move_to(dest,
                                                RAdd(pt.x, RMul(s1_normal.x, offset)),
                                                RAdd(pt.y, RMul(s1_normal.y, offset))),
                                        pt.x, pt.y, offset, s1_normal, s2_normal),
                                    pt.x, pt.y))]
          [] style.join = "Mitre" ->
               IF MitreTest(style, s1_normal, s2_normal)
               THEN MitreContour(dest, style, pt, s1_normal, s2_normal,
                                 line_intersection(VAdd(pt, VScale(s1_normal, offset)),
                                                   s1_normal,
                                                   VAdd(pt, VScale(s2_normal, offset)),
                                                   s2_normal))
               ELSE [ok |-> TRUE, v |-> bevel(dest, style, pt, s1_normal, s2_normal)]
          [] style.join = "Bevel" ->
               [ok |-> TRUE, v |-> bevel(dest, style, pt, s1_normal, s2_normal)]

\* [ok, v]: ok is FALSE when line_intersection panics, else v is dest extended
join_line(dest, style, pt, s1_in, s2_in) ==
    CHOOSE r \in {JoinContour(dest, style, pt, s[1], s[2]) :
                    s \in {JoinNormals(s1_in, s2_in)}} : TRUE

\* ------------------------------------------------------------- the walker

VARIABLES
    ops,           \* the operations of path.ops consumed so far
    style,         \* the StrokeStyle (dash_array and dash_offset are never read)
    cur,           \* (cur_x, cur_y)
    last_normal,
    start_point,   \* Option<(Point, Vector)>: <<>> is None, <<[point, normal]>> is Some
    stroked_path,  \* the operations pushed to the PathBuilder
    calls,         \* history: the cap_line and join_line calls made, in order
    pc,            \* "loop", "done" (returned) or "panic" (aborted)
    result,        \* Option<Path>: <<>> until stroke_to_path returns, then <<path>>
    probe          \* one call of bisect on its own: [a, b, out], out <<>> before the call

vars == <<ops, style, cur, last_normal, start_point, stroked_path, calls, pc, result,
          probe>>

\* no call of bisect on its own is under way
NoProbe == [a |-> VZero, b |-> VZero, out |-> <<>>]

\* the walker's local state as one value
Walker == [cur |-> cur, last_normal |-> last_normal, start_point |-> start_point,
           stroked_path |-> stroked_path, calls |-> calls, pc |-> pc]

CapCall(pt, normal) == [fn |-> "cap_line", pt |-> pt, normals |-> <<normal>>]
JoinCall(pt, s1, s2) == [fn |-> "join_line", pt |-> pt, normals |-> <<s1, s2>>]

\* mutant: the quad is left open, its close() is missing
QuadUnclosed(dest, from, to, normal, half_width) ==
    LET d1 == move_to(dest, RAdd(from.x, RMul(normal.x, half_width)),
                            RAdd(from.y, RMul(normal.y, half_width)))
        d2 == line_to(d1, RAdd(to.x, RMul(normal.x, half_width)),
                          RAdd(to.y, RMul(normal.y, half_width)))
        d3 == line_to(d2, RAdd(to.x, RMul(RNeg(normal.x), half_width)),
                          RAdd(to.y, RMul(RNeg(normal.y), half_width)))
    IN  line_to(d3, RSub(from.x, RMul(normal.x, half_width)),
                    RSub(from.y, RMul(normal.y, half_width)))

\* the segment quad pushed for from -> to with the given normal
Quad(dest, from, to, normal, half_width) ==
    LET d1 == move_to(dest, RAdd(from.x, RMul(normal.x, half_width)),
                            RAdd(from.y, RMul(normal.y, half_width)))
        d2 == line_to(d1, RAdd(to.x, RMul(normal.x, half_width)),
                          RAdd(to.y, RMul(normal.y, half_width)))
        d3 == line_to(d2, RAdd(to.x, RMul(RNeg(normal.x), half_width)),
                          RAdd(to.y, RMul(RNeg(normal.y), half_width)))
        d4 == line_to(d3, RSub(from.x, RMul(normal.x, half_width)),
                          RSub(from.y, RMul(normal.y, half_width)))
    IN  close(d4)

Panicked(w) == [w EXCEPT !.pc = "panic"]

\* mutant: the beginning is capped before the end
CapEndsSwapped(w, sty, point, normal) ==
    [w EXCEPT !.stroked_path = cap_line(cap_line(@, sty, point, flip(normal)),
                                        sty, w.cur, w.last_normal),
              !.calls = @ \o <<CapCall(point, flip(normal)),
                               CapCall(w.cur, w.last_normal)>>]

\* cap end, then cap beginning: the two cap_line calls made for (point, normal)
CapEnds(w, sty, point, normal) ==
    [w EXCEPT !.stroked_path = cap_line(cap_line(@, sty, w.cur, w.last_normal),
                                        sty, point, flip(normal)),
              !.calls = @ \o <<CapCall(w.cur, w.last_normal),
                               CapCall(point, flip(normal))>>]

\* if let Some((point, normal)) = start_point { cap end; cap beginning }
CapBoth(w, sty) ==
    IF w.start_point = <<>>
    THEN w
    ELSE CapEnds(w, sty, w.start_point[1].point, w.start_point[1].normal)

\* mutant: a MoveTo caps the open subpath but keeps its start
OnMoveToKeepsStart(w, sty, p) ==
    [CapBoth(w, sty) EXCEPT !.cur = p]

OnMoveTo(w, sty, p) ==
    [CapBoth(w, sty) EXCEPT !.start_point = <<>>, !.cur = p]

\* the LineTo arm after the join (if any) has produced `joined`
LineToQuad(w, sty, p, normal, first, joined) ==
    IF ~joined.ok
    THEN Panicked(w)
    ELSE [w EXCEPT
            !.start_point = IF first THEN <<[point |-> w.cur, normal |-> normal]>> ELSE @,
            !.calls = IF first THEN @ ELSE Append(@, JoinCall(w.cur, w.last_normal, normal)),
            !.stroked_path = Quad(joined.v, w.cur, p, normal, RDiv(sty.width, R(2))),
            !.last_normal = normal,
            !.cur = p]

\* mutant: the join is made with the two normals the wrong way round
LineToJoinSwapped(w, sty, p, computed) ==
    IF ~computed.ok
    THEN Panicked(w)
    ELSE LineToQuad(w, sty, p, computed.v, w.start_point = <<>>,
                    IF w.start_point = <<>>
                    THEN [ok |-> TRUE, v |-> w.stroked_path]
                    ELSE join_line(w.stroked_path, sty, w.cur, computed.v, w.last_normal))

\* the LineTo arm once compute_normal has produced `normal`
LineToJoin(w, sty, p, computed) ==
    IF ~computed.ok
    THEN Panicked(w)
    ELSE LineToQuad(w, sty, p, computed.v, w.start_point = <<>>,
                    IF w.start_point = <<>>
                    THEN [ok |-> TRUE, v |-> w.stroked_path]
                    ELSE join_line(w.stroked_path, sty, w.cur, w.last_normal, computed.v))

OnLineTo(w, sty, p) == LineToJoin(w, sty, p, compute_normal(w.cur, p))

\* the Close arm after its quad has been pushed and join_line has produced `joined`
CloseJoined(w, point, normal, closing, joined) ==
    IF ~joined.ok
    THEN Panicked(w)
    ELSE [w EXCEPT !.stroked_path = joined.v,
                   !.calls = Append(@, JoinCall(point, closing, normal))]

\* the Close arm for Some((point, normal)); `computed` is the result of
\* compute_normal(cur, point), which the code binds to a local `last_normal`
\* that shadows the walker's; the quad is pushed with `normal`
CloseSome(w, sty, point, normal, computed) ==
    IF ~computed.ok
    THEN Panicked(w)
    ELSE CloseJoined(w, point, normal, computed.v,
                     join_line(Quad(w.stroked_path, w.cur, point, normal,
                                    RDiv(sty.width, R(2))),
                               sty, point, computed.v, normal))

\* mutant: a Close moves the current point to the subpath start
OnCloseMovesCur(w, sty) ==
    IF w.start_point = <<>>
    THEN w
    ELSE [CloseSome(w, sty, w.start_point[1].point, w.start_point[1].normal,
                    compute_normal(w.cur, w.start_point[1].point))
             EXCEPT !.cur = w.start_point[1].point]

OnClose(w, sty) ==
    IF w.start_point = <<>>
    THEN w
    ELSE CloseSome(w, sty, w.start_point[1].point, w.start_point[1].normal,
                   compute_normal(w.cur, w.start_point[1].point))

\* mutant: a curve is skipped instead of aborting
OnCurveSkipped(w) == w

OnCurve(w) == Panicked(w)

\* ------------------------------------------------------------- the inputs

Points == {Pt(0, 0), Pt(5, 0), Pt(10, 0), Pt(5, 12)}
Caps == {"Round", "Square", "Butt"}
Joins == {"Round", "Mitre", "Bevel"}
Widths == {R(1), R(2)}
MitreLimits == {Frac(1, 2), R(1), Frac(13, 5)}
\* the mitre limit a style carries when its join is not Mitre (it is not read)
DefaultMitreLimit == R(10)

Styles ==
    {[width |-> w, cap |-> c, join |-> j, mitre_limit |-> m] :
        w \in Widths, c \in Caps, j \in {"Mitre"}, m \in MitreLimits}
    \cup
    {[width |-> w, cap |-> c, join |-> j, mitre_limit |-> DefaultMitreLimit] :
        w \in Widths, c \in Caps, j \in Joins \ {"Mitre"}}

Init ==
    /\ ops = <<>>
    /\ style \in Styles
    /\ cur = Pt(0, 0)
    /\ last_normal = VZero
    /\ start_point = <<>>
    /\ stroked_path = <<>>
    /\ calls = <<>>
    /\ pc = "loop"
    /\ result = <<>>
    /\ probe = NoProbe

\* the loop body on operation op, leaving the walker as w
Step(op, w) ==
    /\ pc = "loop"
    /\ ops' = Append(ops, op)
    /\ cur' = w.cur
    /\ last_normal' = w.last_normal
    /\ start_point' = w.start_point
    /\ stroked_path' = w.stroked_path
    /\ calls' = w.calls
    /\ pc' = w.pc
    /\ UNCHANGED <<style, result, probe>>

StepMoveTo ==
    /\ Len(ops) < MaxOps
    /\ \E p \in Points : Step(MoveTo(p), OnMoveTo(Walker, style, p))

StepLineTo ==
    /\ Len(ops) < MaxOps
    /\ \E p \in Points : Step(LineTo(p), OnLineTo(Walker, style, p))

StepClose ==
    /\ Len(ops) < MaxOps
    /\ Step(Close, OnClose(Walker, style))

StepQuadTo ==
    /\ Len(ops) < MaxOps
    /\ \E c \in {Pt(5, 0)}, p \in {Pt(10, 0)} : Step(QuadTo(c, p), OnCurve(Walker))

StepCubicTo ==
    /\ Len(ops) < MaxOps
    /\ \E c \in {Pt(5, 0)}, p \in {Pt(10, 0)} : Step(CubicTo(c, c, p), OnCurve(Walker))

\* the loop is out of operations: cap the open subpath and return the path
Return(w) ==
    /\ pc = "loop"
    /\ stroked_path' = w.stroked_path
    /\ calls' = w.calls
    /\ result' = <<finish(w.stroked_path)>>
    /\ pc' = "done"
    /\ UNCHANGED <<ops, style, cur, last_normal, start_point, probe>>

Finish == Return(CapBoth(Walker, style))

Next == StepMoveTo \/ StepLineTo \/ StepClose \/ StepQuadTo \/ StepCubicTo \/ Finish

Spec == Init /\ [][Next]_vars

\* ------------------------------------------- the inputs: paths along a square

\* the corners of the axis-aligned square of side s at the origin, in order
SquareCorners(s) == <<Pt(0, 0), Pt(s, 0), Pt(s, s), Pt(0, s)>>

\* the corner i steps of d from corner k
CornerAt(s, k, d, i) == SquareCorners(s)[((k - 1 + i * d) % 4) + 1]

\* MoveTo a corner, then four equal LineTo around the square back to it
OpenSquare(s, k, d) ==
    <<MoveTo(CornerAt(s, k, d, 0)), LineTo(CornerAt(s, k, d, 1)),
      LineTo(CornerAt(s, k, d, 2)), LineTo(CornerAt(s, k, d, 3)),
      LineTo(CornerAt(s, k, d, 4))>>

ClosedSquares == {Append(OpenSquare(s, k, d), Close) : s \in {5, 10}, k \in 1..4, d \in {1, 3}}
OpenSquares == {OpenSquare(s, k, d) : s \in {5, 10}, k \in 1..4, d \in {1, 3}}
SquarePaths == ClosedSquares \cup OpenSquares
SquarePoints == {Pt(x, y) : x \in {0, 5, 10}, y \in {0, 5, 10}}

IsSquarePrefix(q) ==
    \E sq \in SquarePaths : Len(q) <= Len(sq) /\ SubSeq(sq, 1, Len(q)) = q

SquareInit == Init /\ style.join = "Bevel"

SquareMoveTo ==
    \E p \in SquarePoints :
        /\ IsSquarePrefix(Append(ops, MoveTo(p)))
        /\ Step(MoveTo(p), OnMoveTo(Walker, style, p))

SquareLineTo ==
    \E p \in SquarePoints :
        /\ IsSquarePrefix(Append(ops, LineTo(p)))
        /\ Step(LineTo(p), OnLineTo(Walker, style, p))

SquareClose ==
    /\ IsSquarePrefix(Append(ops, Close))
    /\ Step(Close, OnClose(Walker, style))

SquareFinish ==
    /\ ops \in SquarePaths
    /\ Finish

SquareNext == SquareMoveTo \/ SquareLineTo \/ SquareClose \/ SquareFinish

\* stroke_to_path run on the square paths, closed or left open, with Bevel joins
SpecSquare == SquareInit /\ [][SquareNext]_vars

\* ------------------------------------------------ the inputs: bisect alone

\* right triangles with integer sides, for unit vectors with rational coordinates
Triples == {<<1, 0, 1>>, <<3, 4, 5>>, <<5, 12, 13>>}
Signs == {-1, 1}

\* unit vectors in every octant
Units ==
    {Vec(Frac(sx * t[1], t[3]), Frac(sy * t[2], t[3])) : sx \in Signs, sy \in Signs, t \in Triples}
    \cup
    {Vec(Frac(sx * t[2], t[3]), Frac(sy * t[1], t[3])) : sx \in Signs, sy \in Signs, t \in Triples}

\* the common length of the two vectors
Lengths == {R(1), R(2)}

\* bisect is about to be called on two vectors of equal length
BisectInit ==
    /\ ops = <<>> /\ cur = Pt(0, 0) /\ last_normal = VZero /\ start_point = <<>>
    /\ stroked_path = <<>> /\ calls = <<>> /\ pc = "loop" /\ result = <<>>
    /\ style = [width |-> R(1), cap |-> "Round", join |-> "Round",
                mitre_limit |-> DefaultMitreLimit]
    /\ \E u \in Units, v \in Units, k \in Lengths :
          probe = [a |-> VScale(u, k), b |-> VScale(v, k), out |-> <<>>]

\* the call returns
ApplyBisect ==
    /\ probe.out = <<>>
    /\ probe' = [probe EXCEPT !.out = <<bisect(probe.a, probe.b)>>]
    /\ UNCHANGED <<ops, style, cur, last_normal, start_point, stroked_path, calls, pc,
                   result>>

BisectNext == ApplyBisect

\* bisect(a, b) run on its own on pairs of vectors of equal length
SpecBisect == BisectInit /\ [][BisectNext]_vars

\* ------------------------------------------------------------- properties

Curves == {"QuadTo", "CubicTo"}
LastOp(q) == q[Len(q)]

\* this step consumes one more operation of the input, of the given kind
Consumes(kind) == Len(ops') = Len(ops) + 1 /\ LastOp(ops').op = kind

\* the number of contours a path closes
RECURSIVE Contours(_)
Contours(path) ==
    IF path = <<>> THEN 0
    ELSE Contours(Tail(path)) + (IF Head(path).op = "Close" THEN 1 ELSE 0)

\* path[i..] is a run of contours MoveTo, (LineTo | CubicTo)+, Close, given
\* whether a contour is open at i and how many drawing operations it has
RECURSIVE ContoursFrom(_, _, _, _)
ContoursFrom(path, i, inside, n) ==
    IF i > Len(path) THEN ~inside
    ELSE CASE path[i].op = "MoveTo" -> ~inside /\ ContoursFrom(path, i + 1, TRUE, 0)
           [] path[i].op \in {"LineTo", "CubicTo"} ->
                  inside /\ ContoursFrom(path, i + 1, TRUE, n + 1)
           [] path[i].op = "Close" -> inside /\ n >= 1 /\ ContoursFrom(path, i + 1, FALSE, 0)
           [] OTHER -> FALSE

ClosedContours(path) == ContoursFrom(path, 1, FALSE, 0)

\* C1: when the walker is handed a QuadTo or a CubicTo, wherever in the path,
\* the conversion aborts at that operation: nothing is pushed for it, no path
\* is returned, and the walk never resumes.
C1_CurveAborts ==
    /\ [][(Consumes("QuadTo") \/ Consumes("CubicTo")) =>
            (pc' = "panic" /\ result' = <<>> /\ stroked_path' = stroked_path
             /\ calls' = calls)]_vars
    /\ [][pc # "panic"]_vars

\* an abort at a QuadTo that follows the Close of a stroked subpath
C1_Witness ==
    /\ pc = "panic" /\ result = <<>> /\ stroked_path # <<>>
    /\ Len(ops) = 3
    /\ ops[1].op = "LineTo" /\ ops[2].op = "Close" /\ ops[3].op = "QuadTo"

\* the next operation is a LineTo to the walker's current point
ZeroLineTo == Consumes("LineTo") /\ LastOp(ops').pts[1] = cur

\* the next operation is a Close of a subpath with a segment whose current
\* point is already the subpath's start
ZeroClose ==
    Consumes("Close") /\ start_point # <<>> /\ start_point[1].point = cur

\* C2: a zero-length segment (a LineTo to the current point in any walker state,
\* or the implicit closing segment of a Close at the subpath's start point)
\* aborts the conversion: nothing is pushed and no path is ever returned.
C2_ZeroLengthAborts ==
    /\ [][(ZeroLineTo \/ ZeroClose) =>
            (pc' = "panic" /\ result' = <<>> /\ stroked_path' = stroked_path)]_vars
    /\ [][pc = "panic" => (pc' = "panic" /\ result' = <<>>)]_vars

\* an abort at the Close of a subpath that has come back to its start
C2_Witness ==
    /\ pc = "panic" /\ result = <<>>
    /\ Len(ops) = 3 /\ ops[2].op = "LineTo" /\ ops[3].op = "Close"
    /\ start_point # <<>> /\ start_point[1].point = cur

\* C3: as long as the conversion has not aborted, what has been pushed after
\* each operation, and the path returned at the end, is a run of complete
\* contours MoveTo, (LineTo | CubicTo)+, Close.
C3_ContoursWellFormed ==
    pc # "panic" =>
        /\ ClosedContours(stroked_path)
        /\ result # <<>> => ClosedContours(result[1])

\* three segments with round joins and round caps: 3 quads, 2 joins, 2 caps
C3_Witness ==
    /\ pc = "done" /\ style.cap = "Round" /\ style.join = "Round"
    /\ Len(ops) = 3 /\ Contours(result[1]) = 7

\* the quad of a segment from -> to offset by n * hw to both sides
ExpectedQuad(from, to, n, hw) ==
    <<MoveTo(VAdd(from, VScale(n, hw))), LineTo(VAdd(to, VScale(n, hw))),
      LineTo(VSub(to, VScale(n, hw))), LineTo(VSub(from, VScale(n, hw))), Close>>

HalfWidth == RDiv(style.width, R(2))

\* what this step pushes
Pushed == SubSeq(stroked_path', Len(stroked_path) + 1, Len(stroked_path'))

\* this step is the end of the input
InputEnds == pc = "loop" /\ pc' = "done"

\* C4: the Close of a subpath with a segment clears the walker's subpath start,
\* so neither a following MoveTo nor the end of the input caps the closed
\* subpath, whatever the cap style.
C4_ClosedSubpathNotCapped ==
    /\ [][(Consumes("Close") /\ start_point # <<>> /\ pc' # "panic") =>
            start_point' = <<>>]_vars
    /\ [][(ops # <<>> /\ LastOp(ops).op = "Close" /\ (Consumes("MoveTo") \/ InputEnds)) =>
            (stroked_path' = stroked_path /\ calls' = calls)]_vars

\* C5: the Close of a subpath with a segment, from c to the start point p # c,
\* pushes the quad of c -> p offset along the left normal m of c -> p itself,
\* and then makes one join at p with (m, first-segment normal).
C5_CloseQuadUsesClosingNormal ==
    [][(Consumes("Close") /\ start_point # <<>> /\ start_point[1].point # cur) =>
          /\ Len(Pushed) >= 5
          /\ SubSeq(Pushed, 1, 5) =
                ExpectedQuad(cur, start_point[1].point,
                             compute_normal(cur, start_point[1].point).v, HalfWidth)
          /\ calls' = Append(calls,
                JoinCall(start_point[1].point,
                         compute_normal(cur, start_point[1].point).v,
                         start_point[1].normal))]_vars

\* the index of the last MoveTo of q, 0 when it has none
RECURSIVE LastMoveTo(_, _)
LastMoveTo(q, i) ==
    IF i = 0 THEN 0 ELSE IF q[i].op = "MoveTo" THEN i ELSE LastMoveTo(q, i - 1)

\* the operations of the current subpath, after its MoveTo
Run(q) == SubSeq(q, LastMoveTo(q, Len(q)) + 1, Len(q))

\* the j-th vertex of the current subpath; vertex 0 is where it was opened (the
\* walker starts at the origin)
Vertex(q, j) ==
    IF j = 0
    THEN (IF LastMoveTo(q, Len(q)) = 0 THEN Pt(0, 0) ELSE q[LastMoveTo(q, Len(q))].pts[1])
    ELSE Run(q)[j].pts[1]

\* the current subpath has n >= 1 segments, all from LineTo: open, never closed
OpenRun(q) == Run(q) # <<>> /\ \A j \in 1..Len(Run(q)) : Run(q)[j].op = "LineTo"

\* the current subpath has just been opened, or nothing has been read at all
NoSegmentYet(q) == q = <<>> \/ LastOp(q).op = "MoveTo"

\* the left normal of the k-th segment of the current subpath
SegmentNormal(q, k) == compute_normal(Vertex(q, k - 1), Vertex(q, k)).v

\* C6: at a MoveTo or at the end of the input, an open subpath with n >= 1
\* segments gets exactly two caps, first at its last vertex with the last
\* segment's normal, then at its first vertex with the flipped normal of the
\* first segment; a subpath without a segment gets nothing.  A MoveTo leaves
\* the walker with no subpath start recorded, at the new point.
C6_CapsOnOpenSubpath ==
    [][(Consumes("MoveTo") \/ InputEnds) =>
          /\ OpenRun(ops) =>
                /\ calls' = calls \o
                      <<CapCall(Vertex(ops, Len(Run(ops))), SegmentNormal(ops, Len(Run(ops)))),
                        CapCall(Vertex(ops, 0), flip(SegmentNormal(ops, 1)))>>
                /\ stroked_path' =
                      cap_line(cap_line(stroked_path, style, Vertex(ops, Len(Run(ops))),
                                        SegmentNormal(ops, Len(Run(ops)))),
                               style, Vertex(ops, 0), flip(SegmentNormal(ops, 1)))
          /\ NoSegmentYet(ops) => (calls' = calls /\ stroked_path' = stroked_path)
          /\ Consumes("MoveTo") =>
                (start_point' = <<>> /\ cur' = LastOp(ops').pts[1] /\ pc' = "loop")]_vars

\* a MoveTo after two segments, with square caps: one join, then the two caps
C6_Witness ==
    /\ pc = "loop" /\ style.cap = "Square" /\ Len(ops) = 3
    /\ ops[1].op = "LineTo" /\ ops[2].op = "LineTo" /\ ops[3].op = "MoveTo"
    /\ Len(calls) = 3 /\ calls[2].fn = "cap_line" /\ calls[3].fn = "cap_line"
    /\ calls[2].normals # calls[3].normals
    /\ Contours(stroked_path) = 5 /\ start_point = <<>>

\* the target of the LineTo this step consumes
Target == LastOp(ops').pts[1]

\* the step consumes the k-th LineTo of a subpath that is a MoveTo followed by
\* LineTo operations only, and the LineTo is not of zero length
KthLineTo ==
    /\ Consumes("LineTo")
    /\ LastMoveTo(ops, Len(ops)) > 0
    /\ (Run(ops) = <<>> \/ OpenRun(ops))
    /\ Target # Vertex(ops, Len(Run(ops)))

\* join_line fails on these normals: a Mitre join of two equal normals that
\* passes the mitre-limit test
JoinFails(s1, s2) ==
    /\ style.join = "Mitre"
    /\ s1 = s2
    /\ RLe(R(1), RMul(style.mitre_limit, style.mitre_limit))

\* the join of the k-th LineTo (k > 1) fails
KthJoinFails ==
    /\ Run(ops) # <<>>
    /\ JoinFails(SegmentNormal(ops, Len(Run(ops))),
                 compute_normal(Vertex(ops, Len(Run(ops))), Target).v)

\* what the k-th LineTo pushes: for k = 1 the quad alone, recording the subpath
\* start; for k > 1 one join contour at the shared vertex, then the quad
KthLineToEmits ==
    LET k == Len(Run(ops)) + 1
        v == Vertex(ops, k - 1)
        n == compute_normal(v, Target).v
    IN  /\ pc' = "loop"
        /\ IF k = 1
           THEN /\ Pushed = ExpectedQuad(v, Target, n, HalfWidth)
                /\ calls' = calls
                /\ start_point' = <<[point |-> v, normal |-> n]>>
           ELSE /\ calls' = Append(calls, JoinCall(v, SegmentNormal(ops, k - 1), n))
                /\ Len(Pushed) > 5
                /\ SubSeq(Pushed, Len(Pushed) - 4, Len(Pushed)) =
                      ExpectedQuad(v, Target, n, HalfWidth)
                /\ SubSeq(Pushed, 1, Len(Pushed) - 5) =
                      join_line(<<>>, style, v, SegmentNormal(ops, k - 1), n).v
                /\ Contours(Pushed) = 2
                /\ ClosedContours(Pushed)
                /\ start_point' = start_point

\* with Butt caps, a path of MoveTo and n LineTo returns 2n - 1 contours
ButtContourCount ==
    (/\ InputEnds /\ style.cap = "Butt" /\ Len(ops) >= 2 /\ ops[1].op = "MoveTo"
     /\ \A j \in 2..Len(ops) : ops[j].op = "LineTo")
    => Contours(result'[1]) = 2 * (Len(ops) - 1) - 1

\* C7 as stated: every k-th non-degenerate LineTo of a MoveTo, LineTo.. subpath
\* pushes (for k > 1) one join built from (normal k-1, normal k) and then its
\* quad; the first records the subpath start and pushes no join; with Butt caps
\* the output has 2n - 1 contours.
C7_Original ==
    /\ [][KthLineTo => KthLineToEmits]_vars
    /\ [][ButtContourCount]_vars

\* C7 (amended): the same, unless the join at the shared vertex fails, in which
\* case the LineTo pushes nothing and the conversion aborts.
C7_LineToJoinThenQuad ==
    /\ [][(KthLineTo /\ ~KthJoinFails) => KthLineToEmits]_vars
    /\ [][(KthLineTo /\ KthJoinFails) =>
            (pc' = "panic" /\ result' = <<>> /\ Pushed = <<>>)]_vars
    /\ [][ButtContourCount]_vars

\* MoveTo and two segments with a round join and Butt caps: quad, join, quad
C7_Witness ==
    /\ pc = "done" /\ style.cap = "Butt" /\ style.join = "Round"
    /\ Len(ops) = 3 /\ ops[1].op = "MoveTo" /\ ops[2].op = "LineTo" /\ ops[3].op = "LineTo"
    /\ Len(calls) = 3 /\ calls[1].fn = "join_line"
    /\ Contours(result[1]) = 3

\* C8: stroking a closed square (MoveTo, four equal LineTo around the square,
\* Close) with Bevel joins completes with 4 quads and 4 join triangles, 8
\* contours in all, and no caps.
C8_ClosedSquareEightContours ==
    ops \in ClosedSquares =>
        /\ pc # "panic"
        /\ Contours(stroked_path) = 8
        /\ Len(calls) = 4
        /\ \A i \in 1..Len(calls) : calls[i].fn = "join_line"

\* d x n > 0, n . d = 0, |n| = 1: n is the left unit normal of direction d
LeftUnitNormal(n, d) ==
    /\ dot(n, n) = R(1)
    /\ dot(n, d) = R(0)
    /\ RLt(R(0), RSub(RMul(d.x, n.y), RMul(d.y, n.x)))

\* C9: a path of one MoveTo and one LineTo stroked with Butt caps returns
\* exactly the quad of the segment, offset by half the width along its left
\* unit normal; for (0,0) -> (10,0) and width 1 that is
\* (0,1/2), (10,1/2), (10,-1/2), (0,-1/2), closed.
C9_ButtSingleSegment ==
    (/\ pc = "done" /\ style.cap = "Butt"
     /\ Len(ops) = 2 /\ ops[1].op = "MoveTo" /\ ops[2].op = "LineTo")
    => /\ Len(result[1]) = 5
       /\ result[1][1].op = "MoveTo"
       /\ LeftUnitNormal(VDivS(VSub(result[1][1].pts[1], ops[1].pts[1]), HalfWidth),
                         VSub(ops[2].pts[1], ops[1].pts[1]))
       /\ result[1] = ExpectedQuad(ops[1].pts[1], ops[2].pts[1],
                        VDivS(VSub(result[1][1].pts[1], ops[1].pts[1]), HalfWidth),
                        HalfWidth)
       /\ (ops = <<MoveTo(Pt(0, 0)), LineTo(Pt(10, 0))>> /\ style.width = R(1))
          => result[1] = <<MoveTo(Vec(R(0), Frac(1, 2))), LineTo(Vec(R(10), Frac(1, 2))),
                           LineTo(Vec(R(10), Frac(-1, 2))), LineTo(Vec(R(0), Frac(-1, 2))),
                           Close>>

\* the unit-width stroke of (0,0) -> (10,0) with Butt caps has returned
C9_Witness ==
    /\ pc = "done" /\ style.cap = "Butt" /\ style.width = R(1)
    /\ ops = <<MoveTo(Pt(0, 0)), LineTo(Pt(10, 0))>>
    /\ Len(result[1]) = 5

\* the bevel triangle at pt: s1's offset point, s2's offset point, pt
BevelTriangle(pt, s1, s2) ==
    <<MoveTo(VAdd(pt, VScale(s1, HalfWidth))), LineTo(VAdd(pt, VScale(s2, HalfWidth))),
      LineTo(pt), Close>>

\* J is the mitre contour at pt: s1's offset point, the point where the two
\* offset lines meet, s2's offset point, pt
IsMitreContour(J, pt, s1, s2) ==
    /\ Len(J) = 5
    /\ J[1] = MoveTo(VAdd(pt, VScale(s1, HalfWidth)))
    /\ J[2].op = "LineTo"
    /\ dot(VSub(J[2].pts[1], VAdd(pt, VScale(s1, HalfWidth))), s1) = R(0)
    /\ dot(VSub(J[2].pts[1], VAdd(pt, VScale(s2, HalfWidth))), s2) = R(0)
    /\ J[3] = LineTo(VAdd(pt, VScale(s2, HalfWidth)))
    /\ J[4] = LineTo(pt)
    /\ J[5] = Close

\* 2 > mitre_limit^2 * (1 - cos), with cos = -dot(s1, s2)
BelowMitreLimit(s1, s2) ==
    RLt(RMul(RMul(style.mitre_limit, style.mitre_limit),
             RSub(R(1), RNeg(dot(s1, s2)))),
        R(2))

\* C10 as stated, for the join J made at pt with (s1, s2) after the flip and swap
MitreAsStated(J, pt, s1, s2) ==
    /\ pc' # "panic"
    /\ IF BelowMitreLimit(s1, s2)
       THEN J = BevelTriangle(pt, s1, s2)
       ELSE IsMitreContour(J, pt, s1, s2)
    /\ s1 = flip(s2) => J = BevelTriangle(pt, s1, s2)

\* C10 amended: equal normals that reach the mitre branch abort instead
MitreAsAmended(J, pt, s1, s2) ==
    /\ IF BelowMitreLimit(s1, s2)
       THEN pc' # "panic" /\ J = BevelTriangle(pt, s1, s2)
       ELSE IF s1 = s2
            THEN pc' = "panic" /\ result' = <<>>
            ELSE pc' # "panic" /\ IsMitreContour(J, pt, s1, s2)
    /\ s1 = flip(s2) => J = BevelTriangle(pt, s1, s2)

\* this step makes a Mitre join at a LineTo / at a Close
MitreAtLineTo ==
    /\ style.join = "Mitre" /\ Consumes("LineTo")
    /\ start_point # <<>> /\ Target # cur
MitreAtClose ==
    /\ style.join = "Mitre" /\ Consumes("Close")
    /\ start_point # <<>> /\ start_point[1].point # cur

\* the normals join_line is given at a LineTo / at a Close, after the flip and swap
NormalsAtLineTo == JoinNormals(last_normal, compute_normal(cur, Target).v)
NormalsAtClose ==
    JoinNormals(compute_normal(cur, start_point[1].point).v, start_point[1].normal)

\* C10 as stated: with join = Mitre, every join is the bevel triangle exactly
\* when 2 > mitre_limit^2 * (1 - cos), and the 4-point mitre contour otherwise
\* (equality included); a 180-degree reversal is bevelled for every limit.
C10_Original ==
    /\ [][MitreAtLineTo =>
            MitreAsStated(SubSeq(Pushed, 1, Len(Pushed) - 5), cur,
                          NormalsAtLineTo[1], NormalsAtLineTo[2])]_vars
    /\ [][MitreAtClose =>
            MitreAsStated(SubSeq(Pushed, 6, Len(Pushed)), start_point[1].point,
                          NormalsAtClose[1], NormalsAtClose[2])]_vars

\* C10 (amended): the same, except that when the mitre branch is taken with
\* equal normals (a straight-on vertex) no contour is pushed and the
\* conversion aborts.
C10_MitreOrBevel ==
    /\ [][MitreAtLineTo =>
            MitreAsAmended(SubSeq(Pushed, 1, Len(Pushed) - 5), cur,
                           NormalsAtLineTo[1], NormalsAtLineTo[2])]_vars
    /\ [][MitreAtClose =>
            MitreAsAmended(SubSeq(Pushed, 6, Len(Pushed)), start_point[1].point,
                           NormalsAtClose[1], NormalsAtClose[2])]_vars

\* the equality case: (0,0) -> (5,12) -> (10,0) with mitre_limit 13/5, where
\* mitre_limit^2 * (1 - cos) = 169/25 * 50/169 = 2, joined by a 4-point mitre
C10_Witness ==
    /\ pc = "loop" /\ style.join = "Mitre" /\ style.mitre_limit = Frac(13, 5)
    /\ ops = <<LineTo(Pt(5, 12)), LineTo(Pt(10, 0))>>
    /\ Len(stroked_path) = 15
    /\ IsMitreContour(SubSeq(stroked_path, 6, 10), Pt(5, 12),
                      JoinNormals(calls[1].normals[1], calls[1].normals[2])[1],
                      JoinNormals(calls[1].normals[1], calls[1].normals[2])[2])
    /\ ~BelowMitreLimit(calls[1].normals[1], calls[1].normals[2])
    /\ ~RLt(R(2), RMul(RMul(style.mitre_limit, style.mitre_limit),
                       RSub(R(1), RNeg(dot(calls[1].normals[1], calls[1].normals[2])))))

\* every point a path mentions: vertices and cubic control points
AllPoints(path) ==
    UNION {{path[i].pts[j] : j \in 1..Len(path[i].pts)} : i \in 1..Len(path)}

\* q lies on the segment from pt - n * hw to pt + n * hw (n a unit vector)
OnSegment(q, pt, n, hw) ==
    /\ RSub(RMul(RSub(q.x, pt.x), n.y), RMul(RSub(q.y, pt.y), n.x)) = R(0)
    /\ RLe(RMul(dot(VSub(q, pt), n), dot(VSub(q, pt), n)), RMul(hw, hw))

\* this step joins, at a LineTo, a segment to one with the same normal, with a
\* Round or a Bevel join
StraightJoin ==
    /\ style.join \in {"Round", "Bevel"} /\ Consumes("LineTo")
    /\ start_point # <<>> /\ Target # cur
    /\ compute_normal(cur, Target).v = last_normal

\* C11: at a vertex pt between two collinear same-direction segments (equal
\* normals n), a Round or Bevel join succeeds and its contour is degenerate:
\* every vertex and control point lies on the segment pt - n*hw .. pt + n*hw.
C11_StraightJoinDegenerate ==
    [][StraightJoin =>
          /\ pc' = "loop"
          /\ Len(Pushed) > 5
          /\ Contours(Pushed) = 2 /\ ClosedContours(Pushed)
          /\ \A q \in AllPoints(SubSeq(Pushed, 1, Len(Pushed) - 5)) :
                OnSegment(q, cur, last_normal, HalfWidth)]_vars

\* (0,0) -> (5,0) -> (10,0) with a Round join: the join at (5,0) has been pushed
C11_Witness ==
    /\ pc = "loop" /\ style.join = "Round"
    /\ ops = <<LineTo(Pt(5, 0)), LineTo(Pt(10, 0))>>
    /\ Len(stroked_path) = 15
    /\ stroked_path[7].op = "CubicTo" /\ stroked_path[8].op = "CubicTo"
    /\ \A q \in AllPoints(SubSeq(stroked_path, 6, 10)) :
          OnSegment(q, Pt(5, 0), Vec(R(0), R(1)), HalfWidth)

\* ---------------------------------------- stroke_to_path as a function

\* the walker before the first operation
InitialWalker ==
    [cur |-> Pt(0, 0), last_normal |-> VZero, start_point |-> <<>>,
     stroked_path |-> <<>>, calls |-> <<>>, pc |-> "loop"]

\* the arm of the match taken for op
OnOp(w, sty, op) ==
    CASE op.op = "MoveTo" -> OnMoveTo(w, sty, op.pts[1])
      [] op.op = "LineTo" -> OnLineTo(w, sty, op.pts[1])
      [] op.op = "Close" -> OnClose(w, sty)
      [] OTHER -> OnCurve(w)

\* the loop over the operations q, stopped by an abort
RECURSIVE WalkFrom(_, _, _)
WalkFrom(w, sty, q) ==
    IF q = <<>> \/ w.pc = "panic"
    THEN w
    ELSE CHOOSE r \in {WalkFrom(v, sty, Tail(q)) : v \in {OnOp(w, sty, Head(q))}} : TRUE

\* the end of stroke_to_path on the walker the loop left
Returned(w, sty) ==
    IF w.pc = "panic" THEN <<>> ELSE <<finish(CapBoth(w, sty).stroked_path)>>

\* stroke_to_path(path, style): <<>> when it aborts, else <<the path returned>>
stroke_to_path(path, sty) ==
    CHOOSE r \in {Returned(w, sty) : w \in {WalkFrom(InitialWalker, sty, path)}} : TRUE

\* when both outputs exist, whole is out1 followed by out2
ConcatOf(out1, out2, whole) ==
    (out1 # <<>> /\ out2 # <<>>) => whole = out1[1] \o out2[1]

\* stroking P1 ++ P2 gives the output of P1 followed by the output of P2
Concatenates(P1, P2, sty, whole) ==
    CHOOSE r \in {ConcatOf(out1, out2, whole) :
                    out1 \in {stroke_to_path(P1, sty)},
                    out2 \in {stroke_to_path(P2, sty)}} : TRUE

\* C12: for operation sequences P1 and P2 that both stroke without failure, P2
\* beginning with a MoveTo, the output of P1 ++ P2 is the output of P1 followed
\* by the output of P2 (same style).  (With P1 empty this says nothing, so the
\* split points start at the second operation.)
C12_SubpathsIndependent ==
    pc = "done" =>
        \A i \in 2..Len(ops) :
            ops[i].op = "MoveTo" =>
                Concatenates(SubSeq(ops, 1, i - 1), SubSeq(ops, i, Len(ops)),
                             style, result[1])

\* a capped segment from the origin followed by a second capped subpath
C12_Witness ==
    /\ pc = "done" /\ style.cap = "Round"
    /\ ops = <<LineTo(Pt(5, 0)), MoveTo(Pt(5, 12)), LineTo(Pt(10, 0))>>
    /\ stroke_to_path(<<LineTo(Pt(5, 0))>>, style) # <<>>
    /\ stroke_to_path(<<MoveTo(Pt(5, 12)), LineTo(Pt(10, 0))>>, style) # <<>>
    /\ Len(stroke_to_path(<<LineTo(Pt(5, 0))>>, style)[1]) > 5
    /\ result[1] = stroke_to_path(<<LineTo(Pt(5, 0))>>, style)[1]
                     \o stroke_to_path(<<MoveTo(Pt(5, 12)), LineTo(Pt(10, 0))>>, style)[1]

\* the last vertex of the current subpath
LastVertex(q) == Vertex(q, Len(Run(q)))

\* join = Mitre and mitre_limit^2 >= 1
MitreAtLeastOne ==
    style.join = "Mitre" /\ RLe(R(1), RMul(style.mitre_limit, style.mitre_limit))

\* this step consumes a LineTo whose segment has the normal of the segment
\* before it (the current subpath being a run of LineTo so far)
LineToAfterEqual ==
    /\ Consumes("LineTo") /\ OpenRun(ops)
    /\ Target # LastVertex(ops)
    /\ compute_normal(LastVertex(ops), Target).v = SegmentNormal(ops, Len(Run(ops)))

\* this step consumes a Close whose closing segment has the normal of the
\* first segment, which follows it around the closed subpath
CloseBeforeEqual ==
    /\ Consumes("Close") /\ OpenRun(ops)
    /\ LastVertex(ops) # Vertex(ops, 0)
    /\ compute_normal(LastVertex(ops), Vertex(ops, 0)).v = SegmentNormal(ops, 1)

\* this step consumes a Close whose closing segment has the normal of the last
\* segment, which precedes it
CloseAfterEqual ==
    /\ Consumes("Close") /\ OpenRun(ops)
    /\ LastVertex(ops) # Vertex(ops, 0)
    /\ compute_normal(LastVertex(ops), Vertex(ops, 0)).v
          = SegmentNormal(ops, Len(Run(ops)))

\* equal normals n pass both guards of a Mitre join and make the offset lines
\* parallel: the pair is flipped, the mitre-limit test holds, denom is 0
ReachesParallelIntersection(n) ==
    /\ is_interior_angle(n, n)
    /\ JoinNormals(n, n) = <<flip(n), flip(n)>>
    /\ MitreTest(style, flip(n), flip(n))
    /\ dot(flip(n), unperp(flip(n))) = R(0)

\* the step aborts the conversion: nothing pushed, no path returned
AbortsHere == pc' = "panic" /\ Pushed = <<>> /\ calls' = calls /\ result' = <<>>

\* once aborted the conversion stays aborted and returns nothing
AbortIsFinal == pc = "panic" => (pc' = "panic" /\ result' = <<>>)

JoinAtLineTo == Consumes("LineTo") /\ start_point # <<>> /\ Target # cur
JoinAtClose ==
    Consumes("Close") /\ start_point # <<>> /\ start_point[1].point # cur

\* d1 x d2 for the directions of the segments whose left normals are a and b:
\* positive when the path turns left at the vertex, negative when it turns right
TurnOf(a, b) ==
    RSub(RMul(unperp(a).x, unperp(b).y), RMul(unperp(a).y, unperp(b).x))

\* v points away from the side the path turns to (the turn goes towards d2 - d1)
AwayFromTurn(v, a, b) == RLt(dot(v, VSub(unperp(b), unperp(a))), R(0))

\* the pair `used` to build the join for the pair (a, b) passed to join_line
\* is on the outer side, with the boundary convention for 0 and 180 degrees
OuterPair(a, b, used) ==
    /\ used \in {<<a, b>>, <<flip(b), flip(a)>>}
    /\ RLe(dot(perp(used[1]), used[2]), R(0))
    /\ TurnOf(a, b) # R(0) =>
          (AwayFromTurn(used[1], a, b) /\ AwayFromTurn(used[2], a, b))
    /\ a = b => used = <<flip(b), flip(a)>>
    /\ a = flip(b) => used = <<a, b>>

\* the join contour J at pt starts at the offset point of used[1] and passes
\* through the offset point of used[2]
ContourUses(J, pt, used) ==
    /\ Len(J) >= 4
    /\ J[1] = MoveTo(VAdd(pt, VScale(used[1], HalfWidth)))
    /\ CASE style.join = "Round" ->
              J[3].op = "CubicTo" /\ J[3].pts[3] = VAdd(pt, VScale(used[2], HalfWidth))
         [] style.join = "Bevel" ->
              J[2] = LineTo(VAdd(pt, VScale(used[2], HalfWidth)))
         [] style.join = "Mitre" ->
              J[Len(J) - 2] = LineTo(VAdd(pt, VScale(used[2], HalfWidth)))

\* C14: for every pair of normals (s1, s2) passed to join_line, the pair
\* (s1', s2') the join is built with satisfies dot(perp(s1'), s2') <= 0 and
\* both offset points pt + s1'*hw, pt + s2'*hw are on the outer side of the
\* turn; an exact 0-degree pair is flipped, an exact 180-degree pair is not.
C14_JoinOnOuterSide ==
    /\ [][JoinAtLineTo =>
            /\ OuterPair(last_normal, compute_normal(cur, Target).v, NormalsAtLineTo)
            /\ pc' # "panic" =>
                  ContourUses(SubSeq(Pushed, 1, Len(Pushed) - 5), cur,
                              NormalsAtLineTo)]_vars
    /\ [][JoinAtClose =>
            /\ OuterPair(compute_normal(cur, start_point[1].point).v,
                         start_point[1].normal, NormalsAtClose)
            /\ pc' # "panic" =>
                  ContourUses(SubSeq(Pushed, 6, Len(Pushed)), start_point[1].point,
                              NormalsAtClose)]_vars

\* (0,0) -> (10,0) -> (5,12) turns left at (10,0): the pair was flipped and
\* swapped, and the bevel starts at (10,0) - n2 * hw
C14_Witness ==
    /\ pc = "loop" /\ style.join = "Bevel"
    /\ ops = <<LineTo(Pt(10, 0)), LineTo(Pt(5, 12))>>
    /\ calls = <<JoinCall(Pt(10, 0), Vec(R(0), R(1)), Vec(Frac(-12, 13), Frac(-5, 13)))>>
    /\ RLt(R(0), TurnOf(calls[1].normals[1], calls[1].normals[2]))
    /\ stroked_path[6] = MoveTo(VAdd(Pt(10, 0), VScale(Vec(Frac(12, 13), Frac(5, 13)), HalfWidth)))
    /\ stroked_path[7] = LineTo(VAdd(Pt(10, 0), VScale(Vec(R(0), R(-1)), HalfWidth)))

\* a x b: negative when b is clockwise from a
Cross(a, b) == RSub(RMul(a.x, b.y), RMul(a.y, b.x))

\* u is a positive multiple of v
PositiveMultiple(u, v) == Cross(u, v) = R(0) /\ RLt(R(0), dot(u, v))

\* the angle between a and b is strictly between 90 and 180 degrees
Obtuse(a, b) == RLt(dot(a, b), R(0)) /\ a # flip(b)

\* m lies between a and b: the same, positive, dot product with both
Between(m, a, b) == dot(m, a) = dot(m, b) /\ RLt(R(0), dot(m, a))

\* bisect has returned for an obtuse pair
ObtuseBisected == probe.out # <<>> /\ Obtuse(probe.a, probe.b)

\* C15 as stated: for equal-length a, b at an angle strictly between 90 and
\* 180 degrees, in either orientation, perp(flip(a) + b) is a positive multiple
\* of a + b and bisect(a, b) lies between a and b.
C15_Original ==
    ObtuseBisected =>
        /\ PositiveMultiple(perp(VAdd(flip(probe.a), probe.b)), VAdd(probe.a, probe.b))
        /\ Between(probe.out[1], probe.a, probe.b)

\* C15 (amended): that holds when b is clockwise from a (a x b < 0); when b is
\* counter-clockwise from a, perp(flip(a) + b) is a negative multiple of a + b
\* and bisect(a, b) is the opposite of the bisector between a and b.
C15_BisectObtuse ==
    ObtuseBisected =>
        IF RLt(Cross(probe.a, probe.b), R(0))
        THEN /\ PositiveMultiple(perp(VAdd(flip(probe.a), probe.b)),
                                 VAdd(probe.a, probe.b))
             /\ Between(probe.out[1], probe.a, probe.b)
        ELSE /\ PositiveMultiple(perp(VAdd(flip(probe.a), probe.b)),
                                 flip(VAdd(probe.a, probe.b)))
             /\ Between(flip(probe.out[1]), probe.a, probe.b)

\* bisect((1,0), (-3/5,-4/5)), b clockwise from a, has returned a vector
\* between the two
C15_Witness ==
    /\ probe.a = Vec(R(1), R(0)) /\ probe.b = Vec(Frac(-3, 5), Frac(-4, 5))
    /\ probe.out # <<>>
    /\ Between(probe.out[1], probe.a, probe.b)
    /\ RLt(Cross(probe.a, probe.b), R(0))

\* the unit vector along p0 -> p1 and the left unit normal of it
UnitDirection(p0, p1) == VDivS(VSub(p1, p0), VLength(VSub(p1, p0)))
LeftNormal(p0, p1) == perp(UnitDirection(p0, p1))

\* this step caps an open subpath of exactly one segment
CapsSingleSegment ==
    /\ InputEnds \/ Consumes("MoveTo")
    /\ OpenRun(ops) /\ Len(Run(ops)) = 1

\* the rectangle on the edge pt +/- n*hw extending by hw along v
SquareCapCorners(pt, n, v) ==
    {VAdd(pt, VScale(n, HalfWidth)), VSub(pt, VScale(n, HalfWidth)),
     VAdd(VAdd(pt, VScale(v, HalfWidth)), VScale(n, HalfWidth)),
     VSub(VAdd(pt, VScale(v, HalfWidth)), VScale(n, HalfWidth))}

\* contour is one closed contour whose points are all ahead of pt along v
AheadOf(contour, pt, v) ==
    /\ Contours(contour) = 1 /\ ClosedContours(contour)
    /\ \A q \in AllPoints(contour) : RLe(R(0), dot(VSub(q, pt), v))

\* the caps pushed for the segment p0 -> p1 extend outwards
CapsOutward(p0, p1, d, n) ==
    CASE style.cap = "Square" ->
           /\ Len(Pushed) = 10
           /\ AllPoints(SubSeq(Pushed, 1, 5)) = SquareCapCorners(p1, n, d)
           /\ AllPoints(SubSeq(Pushed, 6, 10)) = SquareCapCorners(p0, n, flip(d))
           /\ AheadOf(SubSeq(Pushed, 1, 5), p1, d)
           /\ AheadOf(SubSeq(Pushed, 6, 10), p0, flip(d))
      [] style.cap = "Round" ->
           /\ bisect(n, flip(n)) = d
           /\ bisect(flip(n), n) = flip(d)
           /\ Len(Pushed) = 8
           /\ Pushed[2].op = "CubicTo" /\ Pushed[2].pts[3] = VAdd(p1, VScale(d, HalfWidth))
           /\ Pushed[6].op = "CubicTo" /\ Pushed[6].pts[3] = VSub(p0, VScale(d, HalfWidth))
           /\ AheadOf(SubSeq(Pushed, 1, 4), p1, d)
           /\ AheadOf(SubSeq(Pushed, 5, 8), p0, flip(d))
      [] OTHER -> TRUE

\* C16: the caps of an open single-segment subpath p0 -> p1 extend outwards.
\* Square: the end cap is the rectangle p1 +/- n*hw, p1 + d*hw +/- n*hw and the
\* start cap the rectangle p0 +/- n*hw, p0 - d*hw +/- n*hw.  Round: the arc's
\* midpoint direction bisect(n, flip(n)) is +d for the end cap and -d for the
\* start cap, and no point of a cap lies back over the segment.
C16_CapsExtendOutward ==
    [][CapsSingleSegment =>
          CapsOutward(Vertex(ops, 0), Vertex(ops, 1),
                      UnitDirection(Vertex(ops, 0), Vertex(ops, 1)),
                      LeftNormal(Vertex(ops, 0), Vertex(ops, 1)))]_vars

\* (0,0) -> (10,0), width 2, Square caps: the end cap reaches x = 11 and the
\* start cap x = -1
C16_Witness ==
    /\ pc = "done" /\ style.cap = "Square" /\ style.width = R(2)
    /\ ops = <<MoveTo(Pt(0, 0)), LineTo(Pt(10, 0))>>
    /\ SubSeq(result[1], 6, 10) =
          <<MoveTo(Pt(10, 1)), LineTo(Pt(11, 1)), LineTo(Pt(11, -1)), LineTo(Pt(10, -1)),
            Close>>
    /\ SubSeq(result[1], 11, 15) =
          <<MoveTo(Pt(0, -1)), LineTo(Pt(-1, -1)), LineTo(Pt(-1, 1)), LineTo(Pt(0, 1)),
            Close>>

\* the input so far is a run of LineTo closed by a Close, and this step
\* consumes a LineTo right after that Close
LineToAfterClose ==
    /\ Consumes("LineTo")
    /\ Len(ops) >= 2 /\ LastOp(ops).op = "Close"
    /\ OpenRun(SubSeq(ops, 1, Len(ops) - 1))

\* the operations before the Close
BeforeClose == SubSeq(ops, 1, Len(ops) - 1)

\* C17: a Close never changes the walker's current point or last_normal, so a
\* LineTo that follows a Close with no MoveTo in between is stroked from the
\* current point of before the Close and joined there with the normal of the
\* last explicit LineTo segment, not of the closing segment.
C17_CloseLeavesCurrentPoint ==
    /\ [][Consumes("Close") => (cur' = cur /\ last_normal' = last_normal)]_vars
    /\ [][(LineToAfterClose /\ pc' # "panic") =>
            /\ cur = LastVertex(BeforeClose)
            /\ Len(Pushed) > 5
            /\ SubSeq(Pushed, Len(Pushed) - 4, Len(Pushed)) =
                  ExpectedQuad(LastVertex(BeforeClose), Target,
                               compute_normal(LastVertex(BeforeClose), Target).v,
                               HalfWidth)
            /\ calls' = Append(calls,
                  JoinCall(LastVertex(BeforeClose),
                           SegmentNormal(BeforeClose, Len(Run(BeforeClose))),
                           compute_normal(LastVertex(BeforeClose), Target).v))
            /\ cur' = Target]_vars

\* (0,0) -> (5,0), Close, then LineTo (5,12): stroked from (5,0), joined there
\* with the normal (0,1) of the first segment, not (0,-1) of the closing one
C17_Witness ==
    /\ pc = "loop"
    /\ ops = <<LineTo(Pt(5, 0)), Close, LineTo(Pt(5, 12))>>
    /\ cur = Pt(5, 12)
    /\ calls[Len(calls)] = JoinCall(Pt(5, 0), Vec(R(0), R(1)), Vec(R(-1), R(0)))
    /\ SubSeq(stroked_path, Len(stroked_path) - 4, Len(stroked_path)) =
          ExpectedQuad(Pt(5, 0), Pt(5, 12), Vec(R(-1), R(0)), HalfWidth)

====
